---- MODULE Spec2Model ----
(***************************************************************************)
(* Model of the Cutout augmentation of notebooks/01-Cutout.ipynb.          *)
(*                                                                         *)
(* A Cutout object holds (n_holes, length).  Cutout.__call__(img) reads    *)
(* the image's height and width, builds an all-ones mask, and n_holes      *)
(* times draws a centre, clips a square footprint against the image and    *)
(* zeroes that slice of the mask; it returns img * mask with the mask      *)
(* expanded over the channels.                                             *)
(*                                                                         *)
(* A tensor / array is a record [shape, data]: shape is the tuple of its   *)
(* extents and data is the nested array, indexed from 0 as in the code.    *)
(* Pixel values are integers standing for finite floats (the               *)
(* k/255 values transforms.ToTensor produces); mask entries 0 and 1 stand  *)
(* for 0.0 and 1.0.                                                        *)
(***************************************************************************)
EXTENDS Integers, Sequences, FiniteSets, TLC

VARIABLES
    n_holes,   \* self.n_holes
    length,    \* self.length
    img,       \* the caller's image tensor, the argument of __call__
    h, w,      \* locals h, w of __call__
    mask,      \* local mask (numpy array)
    n,         \* loop variable: the number of completed iterations
    y, x,      \* the centre drawn in the current iteration
    y1, y2, x1, x2,   \* the clipped slice bounds of the current iteration
    ret,       \* the tensor __call__ returned
    draws,     \* history: the centres np.random.randint produced, in order
    pc,        \* position of the call
    heap,      \* the tensors the caller holds, by identity: its inputs and,
               \* per calling thread, the latest result
    frames,    \* per calling thread, the frame (locals) of its invocation
    rng,       \* the shared random source: how many values were drawn from it
    held,      \* the tensors the Cutout object itself refers to
    kernel,    \* the notebook's global namespace
    nets,      \* the network objects built so far (Grad-CAM notebook)
    cam,       \* the Grad-CAM notebook's global namespace
    files      \* the generated files present in the Makefile's directory

\* One invocation followed step by step on a single image.
callvars == <<img, h, w, mask, n, y, x, y1, y2, x1, x2, ret, draws, pc>>

\* The caller's side: several invocations, threads, notebook cells.
callervars == <<heap, frames, rng, held, kernel, nets, cam, files>>

\* What lies outside the Cutout notebook: the networks and the Makefile.
othervars == <<nets, cam, files>>

vars == <<n_holes, length, img, h, w, mask, n, y, x, y1, y2, x1, x2, ret, draws, pc,
          heap, frames, rng, held, kernel, nets, cam, files>>

----------------------------------------------------------------------------
(* Bounds of the model.                                                    *)

MaxH == 3
MaxW == 3
MaxHoles == 2
MaxLength == 6
NegLength == 1
MaxCalls == 2
ConcHoles == 1
DemoSpread == 5

(* The notebook's demonstration: a 100 x 100 image, Cutout(n_holes=1,      *)
(* length=50).                                                             *)
DemoSize == 100
DemoHoles == 1
DemoLength == 50

----------------------------------------------------------------------------
(* Library operations, as the code uses them.                              *)

Min(a, b) == IF a <= b THEN a ELSE b
Max(a, b) == IF a >= b THEN a ELSE b

\* The positions along an axis of the given extent (0-based, as in the code).
Axis(ext) == 0 .. (ext - 1)

\* The index tuples of an array of the given shape (2-D or 3-D).
Indices(shape) ==
    IF Len(shape) = 2
    THEN Axis(shape[1]) \X Axis(shape[2])
    ELSE Axis(shape[1]) \X Axis(shape[2]) \X Axis(shape[3])

\* The element of array t at index tuple p.
At(t, p) ==
    IF Len(p) = 2 THEN t.data[p[1]][p[2]] ELSE t.data[p[1]][p[2]][p[3]]

\* 2-D and 3-D arrays of the given extents filled with v.
Full2(rows, cols, v) ==
    [shape |-> <<rows, cols>>,
     data  |-> [r \in Axis(rows) |-> [k \in Axis(cols) |-> v]]]

Full3(chans, rows, cols, v) ==
    [shape |-> <<chans, rows, cols>>,
     data  |-> [c \in Axis(chans) |-> [r \in Axis(rows) |-> [k \in Axis(cols) |-> v]]]]

\* img.size(d): the extent of dimension d (0-based).
Size(t, d) == t.shape[d + 1]

\* Variants of np.ones: np.zeros, and the extents given in the order (w, h).
NpZeros(rows, cols) == Full2(rows, cols, 0)
NpOnesSwapped(rows, cols) == Full2(cols, rows, 1)

\* np.ones((rows, cols), np.float32)
NpOnes(rows, cols) == Full2(rows, cols, 1)

\* Variant of np.random.randint with an inclusive upper bound.
RandIntInclusive(high) == 0 .. high

\* np.random.randint(high): the values it can return; empty when high <= 0,
\* where the call raises ValueError.
RandInt(high) == 0 .. (high - 1)

\* Variants of the half-length: the whole length, the division left out; and
\* the half-length with its sign exchanged (y + half for y1, y - half for y2).
HalfWhole(len) == len
HalfNegated(len) == 0 - (len \div 2)

\* Two more: the half of length - 1, and the half rounded up.
HalfOfPredecessor(len) == (len - 1) \div 2
HalfRoundedUp(len) == (len + 1) \div 2

\* Python's floor division self.length // 2.
Half(len) == len \div 2

\* Variant of np.clip that only clamps from above.
NpClipUpperOnly(a, amin, amax) == Min(amax, a)

\* Variant of np.clip that clamps to the last index amax - 1.
NpClipToLast(a, amin, amax) == Min(amax - 1, Max(a, amin))

\* np.clip(a, a_min, a_max) = minimum(a_max, maximum(a, a_min))
NpClip(a, amin, amax) == Min(amax, Max(a, amin))

\* Python slice normalisation of one bound against an axis of extent ext:
\* a negative bound counts from the end, and the result is kept in 0..ext.
SliceBound(i, ext) == IF i < 0 THEN Max(i + ext, 0) ELSE Min(i, ext)

\* Variant of the slice with an inclusive upper bound.
InSliceInclusive(i, lo, hi, ext) ==
    /\ 0 <= i /\ i < ext
    /\ SliceBound(lo, ext) <= i /\ i <= SliceBound(hi, ext)

\* Whether position i is selected by the slice lo:hi on an axis of extent ext.
InSlice(i, lo, hi, ext) ==
    /\ 0 <= i /\ i < ext
    /\ SliceBound(lo, ext) <= i /\ i < SliceBound(hi, ext)

\* The positions selected by the slice lo:hi on an axis of extent ext.
SliceIndices(lo, hi, ext) == { i \in 0 .. (ext - 1) : InSlice(i, lo, hi, ext) }

\* Variants of the slice assignment: the axes exchanged (mask[x1:x2, y1:y2]),
\* and a decrement of the selected entries (mask[...] -= 1) in place of the
\* assignment.
SliceAssignTransposed(m, r1, r2, c1, c2, v) ==
    [m EXCEPT !.data =
        [r \in DOMAIN m.data |-> [k \in DOMAIN m.data[r] |->
            IF InSlice(r, c1, c2, m.shape[1]) /\ InSlice(k, r1, r2, m.shape[2])
            THEN v ELSE m.data[r][k]]]]

SliceAssignDecrement(m, r1, r2, c1, c2, v) ==
    [m EXCEPT !.data =
        [r \in DOMAIN m.data |-> [k \in DOMAIN m.data[r] |->
            IF InSlice(r, r1, r2, m.shape[1]) /\ InSlice(k, c1, c2, m.shape[2])
            THEN m.data[r][k] - 1 ELSE m.data[r][k]]]]

\* mask[r1:r2, c1:c2] = v on a 2-D array (in place: the shape is kept).
SliceAssign(m, r1, r2, c1, c2, v) ==
    [m EXCEPT !.data =
        [r \in DOMAIN m.data |-> [k \in DOMAIN m.data[r] |->
            IF InSlice(r, r1, r2, m.shape[1]) /\ InSlice(k, c1, c2, m.shape[2])
            THEN v ELSE m.data[r][k]]]]

\* mask.expand_as(t) for a 2-D mask and a 3-D tensor t: every mask dimension
\* must equal the matching trailing dimension of t or be 1.
CanExpandAs(m, t) ==
    /\ m.shape[1] = t.shape[2] \/ m.shape[1] = 1
    /\ m.shape[2] = t.shape[3] \/ m.shape[2] = 1

ExpandAs(m, t) ==
    [shape |-> t.shape,
     data  |-> [c \in Axis(t.shape[1]) |-> [r \in Axis(t.shape[2]) |->
                 [k \in Axis(t.shape[3]) |->
                     m.data[IF m.shape[1] = 1 THEN 0 ELSE r]
                           [IF m.shape[2] = 1 THEN 0 ELSE k]]]]]

\* Variant of the product: additive masking, a + b - 1.
MulAdditive(a, b) ==
    [shape |-> a.shape,
     data  |-> [c \in Axis(a.shape[1]) |-> [r \in Axis(a.shape[2]) |->
                 [k \in Axis(a.shape[3]) |-> a.data[c][r][k] + b.data[c][r][k] - 1]]]]

\* a * b, element-wise, for 3-D tensors of equal shape.
Mul(a, b) ==
    [shape |-> a.shape,
     data  |-> [c \in Axis(a.shape[1]) |-> [r \in Axis(a.shape[2]) |->
                 [k \in Axis(a.shape[3]) |-> a.data[c][r][k] * b.data[c][r][k]]]]]

----------------------------------------------------------------------------
(* The images handed to the augmenter.                                     *)

\* An image whose pixels are pairwise distinct: base, base+1, ... in index
\* order.  With base 0 the first pixel is black (0), with base 1 none is.
Coded(shape, base) ==
    [shape |-> shape,
     data  |-> [c \in Axis(shape[1]) |-> [r \in Axis(shape[2]) |->
                 [k \in Axis(shape[3]) |->
                     base + (c * shape[2] + r) * shape[3] + k]]]]

\* Channel counts transforms.ToTensor yields: greyscale and RGB.
Channels == {1, 3}

Shapes == Channels \X (0 .. MaxH) \X (0 .. MaxW)

Images == { Coded(s, b) : s \in Shapes, b \in {0, 1} }

\* The demonstration image: 3 channels, DemoSize x DemoSize, filled with 1.
DemoImage == Full3(3, DemoSize, DemoSize, 1)

\* The centres the demonstration run draws: those around the middle.
DemoCentres == ((DemoSize \div 2) - DemoSpread) .. ((DemoSize \div 2) + DemoSpread)

----------------------------------------------------------------------------
(* State after Cutout.__init__, with the image the caller holds.  The      *)
(* locals of __call__ do not exist yet; they are read only after the       *)
(* statement that assigns them, as pc records.                             *)

NoArray == [shape |-> <<>>, data |-> <<>>]

Locals0 ==
    /\ h = 0 /\ w = 0
    /\ mask = NoArray
    /\ n = 0
    /\ y = 0 /\ x = 0
    /\ y1 = 0 /\ y2 = 0 /\ x1 = 0 /\ x2 = 0
    /\ ret = NoArray
    /\ draws = <<>>
    /\ pc = "idle"

\* The notebook's namespace before any of the Cutout cells has run.
Kernel0 ==
    [Cutout |-> "unbound", inst |-> <<>>, cutout_obj |-> <<>>, args |-> <<>>,
     applied |-> <<>>, defined |-> FALSE, last |-> "none"]

\* No caller-side state: no thread has a frame, nothing was drawn.
\* No network has been built, no Grad-CAM cell has run, nothing was made.
Other0 ==
    /\ nets = <<>>
    /\ cam = <<>>
    /\ files = {}

Ext0 ==
    /\ heap = <<>>
    /\ frames = <<>>
    /\ rng = 0
    /\ held = {}
    /\ kernel = Kernel0
    /\ Other0

Init ==
    /\ n_holes \in 0 .. MaxHoles
    /\ length \in (0 - NegLength) .. MaxLength
    /\ img \in Images
    /\ Locals0
    /\ Ext0

InitDemo ==
    /\ n_holes = DemoHoles
    /\ length = DemoLength
    /\ img = DemoImage
    /\ Locals0
    /\ Ext0

----------------------------------------------------------------------------
(* Cutout.__call__, statement by statement.                                *)

\* h = img.size(1); w = img.size(2); mask = np.ones((h, w), np.float32)
Call ==
    /\ pc = "idle"
    /\ h' = Size(img, 1)
    /\ w' = Size(img, 2)
    /\ mask' = NpOnes(Size(img, 1), Size(img, 2))
    /\ n' = 0
    /\ pc' = "loop"
    /\ UNCHANGED <<n_holes, length, img, y, x, y1, y2, x1, x2, ret, draws>>
    /\ UNCHANGED callervars

\* for n in range(self.n_holes): y = np.random.randint(h); x = np.random.randint(w)
DrawFrom(ys, xs) ==
    /\ pc = "loop"
    /\ n < n_holes
    /\ \E yy \in ys, xx \in xs :
          /\ y' = yy
          /\ x' = xx
          /\ draws' = Append(draws, <<yy, xx>>)
    /\ pc' = "drawn"
    /\ UNCHANGED <<n_holes, length, img, h, w, mask, n, y1, y2, x1, x2, ret>>
    /\ UNCHANGED callervars

Draw == DrawFrom(RandInt(h), RandInt(w))

DrawDemo == DrawFrom(RandInt(h) \cap DemoCentres, RandInt(w) \cap DemoCentres)

\* np.random.randint raises ValueError on an empty range; nothing catches it.
\* The row is drawn first, so y is assigned when only the width is 0.
DrawRaise ==
    /\ pc = "loop"
    /\ n < n_holes
    /\ RandInt(h) = {} \/ RandInt(w) = {}
    /\ IF RandInt(h) = {} THEN y' = y ELSE y' \in RandInt(h)
    /\ pc' = "raised"
    /\ UNCHANGED <<n_holes, length, img, h, w, mask, n, x, y1, y2, x1, x2, ret, draws>>
    /\ UNCHANGED callervars

\* y1 = np.clip(y - self.length // 2, 0, h) ... x2 = np.clip(x + self.length // 2, 0, w)
Clip ==
    /\ pc = "drawn"
    /\ y1' = NpClip(y - Half(length), 0, h)
    /\ y2' = NpClip(y + Half(length), 0, h)
    /\ x1' = NpClip(x - Half(length), 0, w)
    /\ x2' = NpClip(x + Half(length), 0, w)
    /\ pc' = "clipped"
    /\ UNCHANGED <<n_holes, length, img, h, w, mask, n, y, x, ret, draws>>
    /\ UNCHANGED callervars

\* mask[y1: y2, x1: x2] = 0.   and the loop's next iteration
Cut ==
    /\ pc = "clipped"
    /\ mask' = SliceAssign(mask, y1, y2, x1, x2, 0)
    /\ n' = n + 1
    /\ pc' = "loop"
    /\ UNCHANGED <<n_holes, length, img, h, w, y, x, y1, y2, x1, x2, ret, draws>>
    /\ UNCHANGED callervars

\* mask = torch.from_numpy(mask); mask = mask.expand_as(img); img = img * mask; return img
\* expand_as raises RuntimeError when the shapes do not match.
Return ==
    /\ pc = "loop"
    /\ n >= n_holes
    /\ IF CanExpandAs(mask, img)
       THEN /\ ret' = Mul(img, ExpandAs(mask, img))
            /\ pc' = "done"
       ELSE /\ ret' = ret
            /\ pc' = "raised"
    /\ UNCHANGED <<n_holes, length, img, h, w, mask, n, y, x, y1, y2, x1, x2, draws>>
    /\ UNCHANGED callervars

Next == Call \/ Draw \/ DrawRaise \/ Clip \/ Cut \/ Return

Spec == Init /\ [][Next]_vars

NextDemo == Call \/ DrawDemo \/ Clip \/ Cut \/ Return

SpecDemo == InitDemo /\ [][NextDemo]_vars

----------------------------------------------------------------------------
(* The caller's side of __call__: one Cutout object used for several       *)
(* invocations, one after another by one thread or at the same time by     *)
(* two.  Tensors live in heap and are passed by identity; every invocation *)
(* has its own frame of locals; np.random is one source shared by all.     *)
(* The two draws of an iteration are separate steps here.                  *)

\* The tensors the caller passes in: a square greyscale and a wide RGB one.
CallerImages == << Coded(<<1, 2, 2>>, 1), Coded(<<3, 1, 3>>, 0) >>

InputIds == 1 .. Len(CallerImages)

\* Where thread t keeps the tensor its call returned (img_tensor_Cutout).
ResultId(t) == Len(CallerImages) + t

\* A thread that has not called yet and may call `budget` times.
Frame0(budget) ==
    [pc |-> "idle", img |-> 0, h |-> 0, w |-> 0, mask |-> NoArray, n |-> 0,
     y |-> 0, x |-> 0, y1 |-> 0, y2 |-> 0, x1 |-> 0, x2 |-> 0,
     ret |-> 0, drawn |-> <<>>, calls |-> 0, left |-> budget]

\* The caller's state before any call, the threads' frames being fr.
CallerInitFrames(fr) ==
    /\ length \in (0 - NegLength) .. MaxLength
    /\ img = NoArray
    /\ Locals0
    /\ heap = CallerImages \o [t \in DOMAIN fr |-> NoArray]
    /\ frames = fr
    /\ rng = 0
    /\ held = {}
    /\ kernel = Kernel0
    /\ Other0

CallerInit(threads, budget) == CallerInitFrames([t \in threads |-> Frame0(budget)])

\* One thread calling the object up to MaxCalls times in a row.
InitCalls ==
    /\ n_holes \in 0 .. MaxHoles
    /\ CallerInit({1}, MaxCalls)

\* Two threads calling the object once each.
InitConc ==
    /\ n_holes \in 0 .. ConcHoles
    /\ CallerInit({1, 2}, 1)

\* Variant of the loop test that runs one iteration more.
InRangeInclusive(i, stop) == i <= stop

\* for n in range(stop): whether iteration i runs.
InRange(i, stop) == i < stop

\* What np.random.randint(high) did: the axis asked for, the bound, the value.
DrawnValue(axis, high, v) == [axis |-> axis, high |-> high, value |-> v]

\* Variant of the entry of __call__ that keeps the mask of the thread's
\* previous call when its shape fits (a mask created once and kept).
TCallReusingMask(t) ==
    /\ frames[t].pc \in {"idle", "done"}
    /\ frames[t].left > 0
    /\ \E id \in InputIds :
          frames' = [frames EXCEPT ![t] =
              [Frame0(frames[t].left - 1) EXCEPT
                  !.pc = "loop", !.img = id,
                  !.h = Size(heap[id], 1), !.w = Size(heap[id], 2),
                  !.mask = IF frames[t].mask.shape = <<Size(heap[id], 1), Size(heap[id], 2)>>
                           THEN frames[t].mask
                           ELSE NpOnes(Size(heap[id], 1), Size(heap[id], 2)),
                  !.calls = frames[t].calls]]
    /\ UNCHANGED <<n_holes, length, callvars, heap, rng, held, kernel, othervars>>

\* cutout_obj(img_tensor): a new frame; h = img.size(1); w = img.size(2);
\* mask = np.ones((h, w), np.float32).  The locals of an earlier call are gone.
TCall(t) ==
    /\ frames[t].pc \in {"idle", "done"}
    /\ frames[t].left > 0
    /\ \E id \in InputIds :
          frames' = [frames EXCEPT ![t] =
              [Frame0(frames[t].left - 1) EXCEPT
                  !.pc = "loop", !.img = id,
                  !.h = Size(heap[id], 1), !.w = Size(heap[id], 2),
                  !.mask = NpOnes(Size(heap[id], 1), Size(heap[id], 2)),
                  !.calls = frames[t].calls]]
    /\ UNCHANGED <<n_holes, length, callvars, heap, rng, held, kernel, othervars>>

\* for n in range(self.n_holes): y = np.random.randint(h)
TDrawY(t) ==
    /\ frames[t].pc = "loop"
    /\ InRange(frames[t].n, n_holes)
    /\ \E v \in RandInt(frames[t].h) :
          frames' = [frames EXCEPT ![t].y = v, ![t].pc = "drawnY",
                        ![t].drawn = Append(@, DrawnValue("y", frames[t].h, v))]
    /\ rng' = rng + 1
    /\ UNCHANGED <<n_holes, length, callvars, heap, held, kernel, othervars>>

\* x = np.random.randint(w)
TDrawX(t) ==
    /\ frames[t].pc = "drawnY"
    /\ \E v \in RandInt(frames[t].w) :
          frames' = [frames EXCEPT ![t].x = v, ![t].pc = "drawn",
                        ![t].drawn = Append(@, DrawnValue("x", frames[t].w, v))]
    /\ rng' = rng + 1
    /\ UNCHANGED <<n_holes, length, callvars, heap, held, kernel, othervars>>

\* Variant of the clipping that halves self.length in place
\* (self.length //= 2) before using it.
TClipHalving(t) ==
    /\ frames[t].pc = "drawn"
    /\ length' = Half(length)
    /\ frames' = [frames EXCEPT
          ![t].y1 = NpClip(frames[t].y - Half(length), 0, frames[t].h),
          ![t].y2 = NpClip(frames[t].y + Half(length), 0, frames[t].h),
          ![t].x1 = NpClip(frames[t].x - Half(length), 0, frames[t].w),
          ![t].x2 = NpClip(frames[t].x + Half(length), 0, frames[t].w),
          ![t].pc = "clipped"]
    /\ UNCHANGED <<n_holes, callvars, heap, rng, held, kernel, othervars>>

\* y1 = np.clip(y - self.length // 2, 0, h) ... x2 = np.clip(x + self.length // 2, 0, w)
TClip(t) ==
    /\ frames[t].pc = "drawn"
    /\ frames' = [frames EXCEPT
          ![t].y1 = NpClip(frames[t].y - Half(length), 0, frames[t].h),
          ![t].y2 = NpClip(frames[t].y + Half(length), 0, frames[t].h),
          ![t].x1 = NpClip(frames[t].x - Half(length), 0, frames[t].w),
          ![t].x2 = NpClip(frames[t].x + Half(length), 0, frames[t].w),
          ![t].pc = "clipped"]
    /\ UNCHANGED <<n_holes, length, callvars, heap, rng, held, kernel, othervars>>

\* Variant of the cut for a mask kept on the object (self.mask): the cut is
\* made in the mask of the first thread when that one has the same shape.
TCutSharedMask(t) ==
    /\ frames[t].pc = "clipped"
    /\ frames' = [frames EXCEPT
          ![t].mask = SliceAssign(IF frames[1].mask.shape = frames[t].mask.shape
                                  THEN frames[1].mask ELSE frames[t].mask,
                                  frames[t].y1, frames[t].y2,
                                  frames[t].x1, frames[t].x2, 0),
          ![t].n = @ + 1,
          ![t].pc = "loop"]
    /\ UNCHANGED <<n_holes, length, callvars, heap, rng, held, kernel, othervars>>

\* mask[y1: y2, x1: x2] = 0.   and the loop's next iteration
TCut(t) ==
    /\ frames[t].pc = "clipped"
    /\ frames' = [frames EXCEPT
          ![t].mask = SliceAssign(frames[t].mask, frames[t].y1, frames[t].y2,
                                  frames[t].x1, frames[t].x2, 0),
          ![t].n = @ + 1,
          ![t].pc = "loop"]
    /\ UNCHANGED <<n_holes, length, callvars, heap, rng, held, kernel, othervars>>

\* Variant of the return that multiplies in place (img *= mask) and keeps the
\* tensor on the object: the caller's tensor is overwritten and returned.
TReturnInPlace(t) ==
    /\ frames[t].pc = "loop"
    /\ ~InRange(frames[t].n, n_holes)
    /\ heap' = [heap EXCEPT ![frames[t].img] =
                    Mul(heap[frames[t].img], ExpandAs(frames[t].mask, heap[frames[t].img]))]
    /\ frames' = [frames EXCEPT ![t].ret = frames[t].img, ![t].calls = @ + 1,
                                ![t].pc = "done"]
    /\ held' = held \cup {frames[t].img}
    /\ UNCHANGED <<n_holes, length, callvars, rng, kernel, othervars>>

\* mask = torch.from_numpy(mask); mask = mask.expand_as(img); img = img * mask;
\* return img.  The product is a new tensor; the local name img is rebound to
\* it and the caller stores it (img_tensor_Cutout = cutout_obj(img_tensor)).
TReturn(t) ==
    /\ frames[t].pc = "loop"
    /\ ~InRange(frames[t].n, n_holes)
    /\ IF CanExpandAs(frames[t].mask, heap[frames[t].img])
       THEN /\ heap' = [heap EXCEPT ![ResultId(t)] =
                    Mul(heap[frames[t].img], ExpandAs(frames[t].mask, heap[frames[t].img]))]
            /\ frames' = [frames EXCEPT ![t].ret = ResultId(t), ![t].calls = @ + 1,
                                        ![t].pc = "done"]
       ELSE /\ heap' = heap
            /\ frames' = [frames EXCEPT ![t].pc = "raised"]
    /\ UNCHANGED <<n_holes, length, callvars, rng, held, kernel, othervars>>

\* Some thread takes its next step.
SomeCall   == \E t \in DOMAIN frames : TCall(t)
SomeDrawY  == \E t \in DOMAIN frames : TDrawY(t)
SomeDrawX  == \E t \in DOMAIN frames : TDrawX(t)
SomeClip   == \E t \in DOMAIN frames : TClip(t)
SomeCut    == \E t \in DOMAIN frames : TCut(t)
SomeReturn == \E t \in DOMAIN frames : TReturn(t)

NextCaller == SomeCall \/ SomeDrawY \/ SomeDrawX \/ SomeClip \/ SomeCut \/ SomeReturn

SpecCalls == InitCalls /\ [][NextCaller]_vars

SpecConc == InitConc /\ [][NextCaller]_vars

\* Two threads: the first calls the object up to MaxCalls times, the second
\* once, at any moment in between.
InitPair ==
    /\ n_holes \in 0 .. ConcHoles
    /\ CallerInitFrames([t \in {1, 2} |-> Frame0(IF t = 1 THEN MaxCalls ELSE 1)])

SpecPair == InitPair /\ [][NextCaller]_vars

----------------------------------------------------------------------------
(* The notebook's cells around the class.  The kernel keeps one global     *)
(* namespace; a cell runs its statements in order and stops at the first   *)
(* exception, keeping the bindings made before it.  The image cells have   *)
(* run: img_tensor exists.                                                 *)
(*   kernel.Cutout      what the global name Cutout is bound to            *)
(*   kernel.inst        (n_holes, length) of the instance bound to Cutout  *)
(*   kernel.cutout_obj  (n_holes, length) of the object bound to cutout_obj*)
(*   kernel.args        the globals n_holes, length the reader filled in   *)
(*   kernel.applied     configuration of the last augmenter applied        *)
(*   kernel.defined     the class-definition cell has run                  *)
(*   kernel.last        how the last cell run ended                        *)

InitNotebook ==
    /\ n_holes = 0 /\ length = 0
    /\ img = NoArray
    /\ Locals0
    /\ Ext0

\* Calling the name Cutout with constructor arguments: the class constructs
\* an instance; an instance is called through __call__(self, img), which
\* accepts neither two positional arguments nor the keywords n_holes, length.
Construct(binding) ==
    CASE binding = "class" -> "ok"
      [] binding = "instance" -> "TypeError"
      [] OTHER -> "NameError"

\* The cell `class Cutout(object): ...`
RunClassCell ==
    /\ kernel' = [kernel EXCEPT !.Cutout = "class", !.inst = <<>>,
                                !.defined = TRUE, !.last = "ok"]
    /\ UNCHANGED <<n_holes, length, callvars, heap, frames, rng, held, othervars>>

\* The cell `cutout_obj = Cutout(n_holes=1, length=50)`,
\* `img_tensor_Cutout = cutout_obj(img_tensor)`
RunDemoCell ==
    /\ kernel' =
          IF Construct(kernel.Cutout) = "ok"
          THEN [kernel EXCEPT !.cutout_obj = <<DemoHoles, DemoLength>>,
                              !.applied = <<DemoHoles, DemoLength>>,
                              !.last = "ok"]
          ELSE [kernel EXCEPT !.last = Construct(kernel.Cutout)]
    /\ UNCHANGED <<n_holes, length, callvars, heap, frames, rng, held, othervars>>

\* The cell `n_holes = ...`, `length = ...`, `Cutout = Cutout(n_holes, length)`,
\* `img_tensor_Cutout = Cutout(img_tensor)` with the two values filled in.
RunTryCell ==
    /\ \E nh \in 0 .. MaxHoles, len \in 0 .. MaxLength :
          kernel' =
              IF Construct(kernel.Cutout) = "ok"
              THEN [kernel EXCEPT !.args = <<nh, len>>,
                                  !.Cutout = "instance", !.inst = <<nh, len>>,
                                  !.applied = <<nh, len>>,
                                  !.last = "ok"]
              ELSE [kernel EXCEPT !.args = <<nh, len>>,
                                  !.last = Construct(kernel.Cutout)]
    /\ UNCHANGED <<n_holes, length, callvars, heap, frames, rng, held, othervars>>

NextNotebook == RunClassCell \/ RunDemoCell \/ RunTryCell

SpecNotebook == InitNotebook /\ [][NextNotebook]_vars

----------------------------------------------------------------------------
(* The networks of the Grad-CAM notebook: ResNet and WideResNet with hooks *)
(* on their last stage.  A model object keeps                              *)
(*   arch         "ResNet" or "WideResNet"                                 *)
(*   activations  what _store_activations_hook stored, NoneValue before    *)
(*   gradients    what _store_gradients_hook stored, NoneValue before      *)
(*   passes       how many forward passes it ran                           *)
(*   backs        how many backward passes ran through it                  *)
(*   graph        the forward pass whose autograd graph is alive, 0 if none*)
(*   pgrad        whether its parameters hold accumulated gradients        *)
(* A tensor is named by the model, the layer and the pass that made it.    *)

MaxPasses == 2

NoneValue == [model |-> 0, layer |-> "None", pass |-> 0]

\* self.layer4.register_forward_hook(...) / self.block3.register_forward_hook(...)
HookedLayer(arch) == IF arch = "ResNet" THEN "layer4" ELSE "block3"

\* The layer whose output forward() returns: self.linear / self.fc.
LastLayer(arch) == IF arch = "ResNet" THEN "linear" ELSE "fc"

\* self.gradients = None; self.activations = None, at the end of __init__
NewModel(arch) ==
    [arch |-> arch, activations |-> NoneValue, gradients |-> NoneValue,
     passes |-> 0, backs |-> 0, graph |-> 0, pgrad |-> FALSE]

\* Variant of the forward hook with activations kept on the class, shared by
\* all instances.
StoreActivationsShared(ns, m, output) ==
    [k \in DOMAIN ns |-> [ns[k] EXCEPT !.activations = output]]

\* def _store_activations_hook(self, module, input, output): self.activations = output
StoreActivationsHook(ns, m, output) ==
    [ns EXCEPT ![m].activations = output]

\* Variant of the backward hook that stores nothing on the first backward.
StoreGradientsLate(ns, m, grad_output) ==
    IF ns[m].backs = 0 THEN ns ELSE [ns EXCEPT ![m].gradients = grad_output[1]]

\* def _store_gradients_hook(self, module, grad_input, grad_output):
\*     self.gradients = grad_output[0]
StoreGradientsHook(ns, m, grad_output) ==
    [ns EXCEPT ![m].gradients = grad_output[1]]

ModelIds == {1, 2}

\* resnet18_gradcam_cifar10 = ResNet18(...); wideresnet_gradcam_cifar10 = WideResNet(...)
\* No cell has run a pass yet; the names output_* and gradients_* are unbound.
InitHooks ==
    /\ n_holes = 0 /\ length = 0
    /\ img = NoArray
    /\ Locals0
    /\ heap = <<>> /\ frames = <<>> /\ rng = 0 /\ held = {} /\ kernel = Kernel0
    /\ nets = [m \in ModelIds |-> NewModel(IF m = 1 THEN "ResNet" ELSE "WideResNet")]
    /\ cam = [output |-> [m \in ModelIds |-> NoneValue],
              read   |-> [m \in ModelIds |-> [status |-> "none", passes |-> 0, backs |-> 0]]]
    /\ files = {}

\* model.zero_grad(): clears the parameters' .grad, not the two hook fields.
ZeroGrad(m) ==
    /\ nets[m].pgrad
    /\ nets' = [nets EXCEPT ![m].pgrad = FALSE]
    /\ UNCHANGED <<n_holes, length, callvars, heap, frames, rng, held, kernel, cam, files>>

\* output = model(input_tensor): forward() runs the hooked layer, whose forward
\* hook fires with its output; the notebook keeps the returned output.
Forward(m) ==
    /\ nets[m].passes < MaxPasses
    /\ LET k == nets[m].passes + 1
           ran == [nets EXCEPT ![m].passes = k, ![m].graph = k]
       IN  /\ nets' = StoreActivationsHook(ran, m,
                          [model |-> m, layer |-> HookedLayer(nets[m].arch), pass |-> k])
           /\ cam' = [cam EXCEPT !.output[m] =
                          [model |-> m, layer |-> LastLayer(nets[m].arch), pass |-> k]]
    /\ UNCHANGED <<n_holes, length, callvars, heap, frames, rng, held, kernel, files>>

\* output.max().backward(): the graph of the pass that made output is walked
\* once and freed; the backward hook of the hooked layer fires with the
\* gradient of its output; the parameters accumulate gradients.
Backward(m) ==
    /\ cam.output[m] # NoneValue
    /\ nets[m].graph = cam.output[m].pass
    /\ nets' = [StoreGradientsHook(nets, m,
                    << [model |-> m, layer |-> HookedLayer(nets[m].arch),
                        pass |-> cam.output[m].pass] >>)
                EXCEPT ![m].backs = @ + 1, ![m].graph = 0, ![m].pgrad = TRUE]
    /\ UNCHANGED <<n_holes, length, callvars, heap, frames, rng, held, kernel, cam, files>>

\* gradients = model.gradients.detach().cpu(); activations = model.activations.detach().cpu()
\* None has no detach: AttributeError.
ReadFields(m) ==
    /\ cam' = [cam EXCEPT !.read[m] =
                  [status |-> IF nets[m].gradients = NoneValue \/ nets[m].activations = NoneValue
                              THEN "AttributeError" ELSE "ok",
                   passes |-> nets[m].passes, backs |-> nets[m].backs]]
    /\ UNCHANGED <<n_holes, length, callvars, heap, frames, rng, held, kernel, nets, files>>

SomeZeroGrad   == \E m \in ModelIds : ZeroGrad(m)
SomeForward    == \E m \in ModelIds : Forward(m)
SomeBackward   == \E m \in ModelIds : Backward(m)
SomeReadFields == \E m \in ModelIds : ReadFields(m)

NextHooks == SomeZeroGrad \/ SomeForward \/ SomeBackward \/ SomeReadFields

SpecHooks == InitHooks /\ [][NextHooks]_vars

----------------------------------------------------------------------------
(* Construction of a WideResNet, statement by statement.  nets is the      *)
(* object under construction:                                              *)
(*   depth, widen_factor   the constructor's arguments                     *)
(*   nChannels, n          the locals of __init__                          *)
(*   conv1                 the first convolution, <<>> until built         *)
(*   blocks                block1, block2, block3 as far as built; each is *)
(*                         the list of basic blocks of its nn.Sequential   *)
(*   layers, i             the locals of the _make_layer that is running   *)
(*   pc                    position: "start", "conv1", "block", "layer",   *)
(*                         "tail", "done", "AssertionError"                *)

MaxDepth == 22
MaxWiden == 2

\* Variant of `c and a or b` that always yields a.
AndOrFirst(c, a, b) == a

\* Python's `c and a or b` on integers: a when c holds and a is not 0, else b.
AndOr(c, a, b) == IF c /\ a # 0 THEN a ELSE b

\* Variant of the depth test that accepts every third depth.
DepthAcceptedThirds(depth) == (depth - 4) % 3 = 0

\* assert((depth - 4) % 6 == 0)
DepthAccepted(depth) == (depth - 4) % 6 = 0

\* BasicBlockWide(in_planes, out_planes, stride, dropRate): what the claims
\* read of it.  convShortcut is a Conv2d exactly when (not equalInOut) holds,
\* a module being true in `and ... or None`.
BasicBlockWide(in_planes, out_planes, stride) ==
    [in_planes |-> in_planes, out_planes |-> out_planes, stride |-> stride,
     equalInOut |-> (in_planes = out_planes),
     convShortcut |-> IF ~(in_planes = out_planes)
                      THEN [in_channels |-> in_planes, out_channels |-> out_planes,
                            stride |-> stride]
                      ELSE <<>>]

\* The arguments (in_planes, out_planes, stride) of NetworkBlock number k.
BlockArgs(nChannels, k) ==
    [in_planes |-> nChannels[k], out_planes |-> nChannels[k + 1],
     stride |-> IF k = 1 THEN 1 ELSE 2]

InitWide ==
    /\ n_holes = 0 /\ length = 0
    /\ img = NoArray
    /\ Locals0
    /\ heap = <<>> /\ frames = <<>> /\ rng = 0 /\ held = {} /\ kernel = Kernel0
    /\ \E depth \in 0 .. MaxDepth, widen_factor \in 1 .. MaxWiden :
          nets = [arch |-> "WideResNet", depth |-> depth, widen_factor |-> widen_factor,
                  nChannels |-> <<>>, n |-> 0, conv1 |-> <<>>, blocks |-> <<>>,
                  layers |-> <<>>, i |-> 0, pc |-> "start"]
    /\ cam = <<>>
    /\ files = {}

\* nChannels = [16, 16*widen_factor, 32*widen_factor, 64*widen_factor]
\* assert((depth - 4) % 6 == 0); n = (depth - 4) // 6
WideAssert ==
    /\ nets.pc = "start"
    /\ nets' = IF DepthAccepted(nets.depth)
               THEN [nets EXCEPT !.nChannels = <<16, 16 * nets.widen_factor,
                                                 32 * nets.widen_factor,
                                                 64 * nets.widen_factor>>,
                                 !.n = (nets.depth - 4) \div 6,
                                 !.pc = "conv1"]
               ELSE [nets EXCEPT !.nChannels = <<16, 16 * nets.widen_factor,
                                                 32 * nets.widen_factor,
                                                 64 * nets.widen_factor>>,
                                 !.pc = "AssertionError"]
    /\ UNCHANGED <<n_holes, length, callvars, heap, frames, rng, held, kernel, cam, files>>

\* self.conv1 = nn.Conv2d(3, nChannels[0], ...)
WideConv1 ==
    /\ nets.pc = "conv1"
    /\ nets' = [nets EXCEPT !.conv1 = [in_channels |-> 3, out_channels |-> nets.nChannels[1]],
                            !.pc = "block"]
    /\ UNCHANGED <<n_holes, length, callvars, heap, frames, rng, held, kernel, cam, files>>

\* self.blockK = NetworkBlock(n, nChannels[K-1], nChannels[K], block, stride, dropRate):
\* __init__ calls _make_layer, which starts with layers = [].
NetworkBlockInit ==
    /\ nets.pc = "block"
    /\ Len(nets.blocks) < 3
    /\ nets' = [nets EXCEPT !.layers = <<>>, !.i = 0, !.pc = "layer"]
    /\ UNCHANGED <<n_holes, length, callvars, heap, frames, rng, held, kernel, cam, files>>

\* for i in range(nb_layers):
\*     layers.append(block(i == 0 and in_planes or out_planes, out_planes,
\*                         i == 0 and stride or 1, dropRate))
WideMakeLayerAppend ==
    /\ nets.pc = "layer"
    /\ nets.i < nets.n
    /\ LET a == BlockArgs(nets.nChannels, Len(nets.blocks) + 1)
       IN  nets' = [nets EXCEPT
                      !.layers = Append(@, BasicBlockWide(
                                     AndOr(nets.i = 0, a.in_planes, a.out_planes),
                                     a.out_planes,
                                     AndOr(nets.i = 0, a.stride, 1))),
                      !.i = @ + 1]
    /\ UNCHANGED <<n_holes, length, callvars, heap, frames, rng, held, kernel, cam, files>>

\* return nn.Sequential(*layers), assigned to self.layer and to self.blockK
WideMakeLayerReturn ==
    /\ nets.pc = "layer"
    /\ ~(nets.i < nets.n)
    /\ nets' = [nets EXCEPT !.blocks = Append(@, nets.layers),
                            !.pc = IF Len(nets.blocks) + 1 < 3 THEN "block" ELSE "tail"]
    /\ UNCHANGED <<n_holes, length, callvars, heap, frames, rng, held, kernel, cam, files>>

\* self.bn1, self.relu, self.fc, the weight initialisation and the hooks
WideFinish ==
    /\ nets.pc = "tail"
    /\ nets' = [nets EXCEPT !.pc = "done"]
    /\ UNCHANGED <<n_holes, length, callvars, heap, frames, rng, held, kernel, cam, files>>

NextWide == WideAssert \/ WideConv1 \/ NetworkBlockInit \/ WideMakeLayerAppend
               \/ WideMakeLayerReturn \/ WideFinish

SpecWide == InitWide /\ [][NextWide]_vars

----------------------------------------------------------------------------
(* Construction of a ResNet, statement by statement.  nets is the object   *)
(* under construction:                                                     *)
(*   expansion     block.expansion: 1 for BasicBlock, 4 for Bottleneck     *)
(*   num_blocks    the constructor's list of four block counts             *)
(*   in_planes     self.in_planes                                          *)
(*   built         layer1 .. layer4 as far as built; each is the list of   *)
(*                 blocks of its nn.Sequential                             *)
(*   strides, layers, planes   the locals of the _make_layer that runs     *)
(*   linear        in_features of self.linear, 0 until built               *)
(*   pc            position: "start", "layer", "loop", "linear", "done"    *)

MaxBlocks == 2

\* expansion = 1 (BasicBlock), expansion = 4 (Bottleneck)
Expansions == {1, 4}

\* Python's [v] * k: k copies of v, none when k <= 0.
Repeat(v, k) == [j \in 1 .. k |-> v]

\* The arguments (planes, stride) of the _make_layer call for layer k.
LayerArgs(k) ==
    [planes |-> 64 * 2 ^ (k - 1), stride |-> IF k = 1 THEN 1 ELSE 2]

\* block(in_planes, planes, stride): what the claims read of it.  Its output
\* has expansion * planes channels (conv2 of BasicBlock, conv3 of Bottleneck).
Block(expansion, in_planes, planes, stride) ==
    [in_planes |-> in_planes, planes |-> planes, stride |-> stride,
     out_planes |-> expansion * planes]

\* Variant of the update of self.in_planes that leaves the expansion out.
NextInPlanesPlain(planes, expansion) == planes

\* self.in_planes = planes * block.expansion
NextInPlanes(planes, expansion) == planes * expansion

InitResNet ==
    /\ n_holes = 0 /\ length = 0
    /\ img = NoArray
    /\ Locals0
    /\ heap = <<>> /\ frames = <<>> /\ rng = 0 /\ held = {} /\ kernel = Kernel0
    /\ \E expansion \in Expansions, num_blocks \in [1 .. 4 -> 0 .. MaxBlocks] :
          nets = [arch |-> "ResNet", expansion |-> expansion, num_blocks |-> num_blocks,
                  in_planes |-> 0, conv1 |-> <<>>, built |-> <<>>,
                  strides |-> <<>>, layers |-> <<>>, planes |-> 0,
                  linear |-> 0, pc |-> "start"]
    /\ cam = <<>>
    /\ files = {}

\* self.in_planes = 64; self.conv1 = conv3x3(3, 64); self.bn1 = nn.BatchNorm2d(64)
ResNetStart ==
    /\ nets.pc = "start"
    /\ nets' = [nets EXCEPT !.in_planes = 64,
                            !.conv1 = [in_channels |-> 3, out_channels |-> 64],
                            !.pc = "layer"]
    /\ UNCHANGED <<n_holes, length, callvars, heap, frames, rng, held, kernel, cam, files>>

\* self.layerK = self._make_layer(block, planes, num_blocks[K-1], stride):
\* strides = [stride] + [1]*(num_blocks-1); layers = []
MakeLayerCall ==
    /\ nets.pc = "layer"
    /\ Len(nets.built) < 4
    /\ LET k == Len(nets.built) + 1
       IN  nets' = [nets EXCEPT
                      !.strides = <<LayerArgs(k).stride>> \o Repeat(1, nets.num_blocks[k] - 1),
                      !.layers = <<>>,
                      !.planes = LayerArgs(k).planes,
                      !.pc = "loop"]
    /\ UNCHANGED <<n_holes, length, callvars, heap, frames, rng, held, kernel, cam, files>>

\* for stride in strides:
\*     layers.append(block(self.in_planes, planes, stride))
\*     self.in_planes = planes * block.expansion
MakeLayerAppend ==
    /\ nets.pc = "loop"
    /\ Len(nets.layers) < Len(nets.strides)
    /\ nets' = [nets EXCEPT
                  !.layers = Append(@, Block(nets.expansion, nets.in_planes, nets.planes,
                                             nets.strides[Len(nets.layers) + 1])),
                  !.in_planes = NextInPlanes(nets.planes, nets.expansion)]
    /\ UNCHANGED <<n_holes, length, callvars, heap, frames, rng, held, kernel, cam, files>>

\* return nn.Sequential(*layers)
MakeLayerReturn ==
    /\ nets.pc = "loop"
    /\ ~(Len(nets.layers) < Len(nets.strides))
    /\ nets' = [nets EXCEPT !.built = Append(@, nets.layers),
                            !.pc = IF Len(nets.built) + 1 < 4 THEN "layer" ELSE "linear"]
    /\ UNCHANGED <<n_holes, length, callvars, heap, frames, rng, held, kernel, cam, files>>

\* self.linear = nn.Linear(512*block.expansion, num_classes), then the hooks
ResNetLinear ==
    /\ nets.pc = "linear"
    /\ nets' = [nets EXCEPT !.linear = 512 * nets.expansion, !.pc = "done"]
    /\ UNCHANGED <<n_holes, length, callvars, heap, frames, rng, held, kernel, cam, files>>

NextResNet == ResNetStart \/ MakeLayerCall \/ MakeLayerAppend \/ MakeLayerReturn
                 \/ ResNetLinear

SpecResNet == InitResNet /\ [][NextResNet]_vars

----------------------------------------------------------------------------
(* A Grad-CAM comparison cell, statement by statement.  Four models see    *)
(* the same image: 1 baseline, 2 cutout, 3 data augmentation, 4 cutout +   *)
(* data augmentation.  cam is the notebook's namespace:                    *)
(*   target    per model, the class index its output's argmax gave         *)
(*   names     the predicted_class_* globals, "unbound" until assigned     *)
(*   heatmap   per panel, the model whose superimposed image it shows      *)
(*   titles    per panel, the title set on it                              *)
(*   pc        position in the cell                                        *)

MaxClass == 2

cifar10_classes ==
    << "Airplane", "Automobile", "Bird", "Cat", "Deer",
       "Dog", "Frog", "Horse", "Ship", "Truck" >>

\* The class indices a model can predict.
ClassIds == 0 .. MaxClass

Panels == 1 .. 4

\* The global names the cell uses for the predicted labels, by the suffix
\* after predicted_class_wideresnet_gradcam_cifar10.
PredictedNames == {"", "_cutout", "_da", "_da_cutout"}

\* cifar10_classes[target.item()]
ClassLabel(target) == cifar10_classes[target + 1]

\* 'Pred: ' + predicted_class
PanelTitle(label) == <<"Pred: ", label>>

InitPanels ==
    /\ n_holes = 0 /\ length = 0
    /\ img = NoArray
    /\ Locals0
    /\ heap = <<>> /\ frames = <<>> /\ rng = 0 /\ held = {} /\ kernel = Kernel0
    /\ nets = <<>>
    /\ cam = [pc |-> "start",
              target  |-> [k \in Panels |-> 0],
              names   |-> [nm \in PredictedNames |-> "unbound"],
              heatmap |-> [k \in Panels |-> 0],
              titles  |-> [k \in Panels |-> <<>>]]
    /\ files = {}

\* The forward passes, target_* = output_*.argmax(1) and the backward passes:
\* every model predicts some class.
PredictAll ==
    /\ cam.pc = "start"
    /\ \E t \in [Panels -> ClassIds] :
          cam' = [cam EXCEPT !.target = t, !.pc = "map1"]
    /\ UNCHANGED <<n_holes, length, callvars, heap, frames, rng, held, kernel, nets, files>>

\* predicted_class_wideresnet_gradcam_cifar10 = cifar10_classes[target_wideresnet_gradcam_cifar10.item()]
MapBaseline ==
    /\ cam.pc = "map1"
    /\ cam' = [cam EXCEPT !.names[""] = ClassLabel(cam.target[1]), !.pc = "map2"]
    /\ UNCHANGED <<n_holes, length, callvars, heap, frames, rng, held, kernel, nets, files>>

\* predicted_class_wideresnet_gradcam_cifar10 = cifar10_classes[target_wideresnet_gradcam_cifar10_cutout.item()]
MapCutout ==
    /\ cam.pc = "map2"
    /\ cam' = [cam EXCEPT !.names[""] = ClassLabel(cam.target[2]), !.pc = "map3"]
    /\ UNCHANGED <<n_holes, length, callvars, heap, frames, rng, held, kernel, nets, files>>

\* predicted_class_wideresnet_gradcam_cifar10_da = cifar10_classes[target_wideresnet_gradcam_cifar10_da.item()]
MapDa ==
    /\ cam.pc = "map3"
    /\ cam' = [cam EXCEPT !.names["_da"] = ClassLabel(cam.target[3]), !.pc = "map4"]
    /\ UNCHANGED <<n_holes, length, callvars, heap, frames, rng, held, kernel, nets, files>>

\* predicted_class_wideresnet_gradcam_cifar10_da_cutout = cifar10_classes[target_wideresnet_gradcam_cifar10_da_cutout.item()]
MapDaCutout ==
    /\ cam.pc = "map4"
    /\ cam' = [cam EXCEPT !.names["_da_cutout"] = ClassLabel(cam.target[4]), !.pc = "plot"]
    /\ UNCHANGED <<n_holes, length, callvars, heap, frames, rng, held, kernel, nets, files>>

\* The name each panel's set_title reads: ax[1] and ax[2] both read
\* predicted_class_wideresnet_gradcam_cifar10.
TitleName(k) == CASE k = 1 -> "" [] k = 2 -> "" [] k = 3 -> "_da" [] OTHER -> "_da_cutout"

\* ax[k].imshow(superimposed_img_<model k> / 255); ax[k].set_title('Pred: ' + ...)
ShowPanels ==
    /\ cam.pc = "plot"
    /\ cam' = [cam EXCEPT !.heatmap = [k \in Panels |-> k],
                          !.titles = [k \in Panels |-> PanelTitle(cam.names[TitleName(k)])],
                          !.pc = "shown"]
    /\ UNCHANGED <<n_holes, length, callvars, heap, frames, rng, held, kernel, nets, files>>

NextPanels == PredictAll \/ MapBaseline \/ MapCutout \/ MapDa \/ MapDaCutout \/ ShowPanels

SpecPanels == InitPanels /\ [][NextPanels]_vars

----------------------------------------------------------------------------
(* The Makefile.  A notebook is named by a number X standing for           *)
(* notebooks/X.md and notebooks/X.ipynb.  files is the directory:          *)
(*   md        the X with notebooks/X.md present                           *)
(*   nb        the X with notebooks/X.ipynb present                        *)
(*   stale     the X whose X.ipynb is older than its X.md                  *)
(*   combined  whether CutOut.ipynb is present                             *)
(*   last      the last command run and how it ended                       *)

MaxSources == 3

Names == 1 .. MaxSources

\* SOURCES := $(wildcard notebooks/*.md)
SOURCES(dir) == dir.md

\* NBS := $(patsubst notebooks/%.md, notebooks/%.ipynb, $(SOURCES))
NBS(dir) == SOURCES(dir)

\* The targets of $(NBS) that make must rebuild: missing, or older than
\* their prerequisite.
OutOfDate(dir) == {X \in NBS(dir) : X \notin dir.nb \/ X \in dir.stale}

\* Any state of the directory: notebooks present or not, stale or not, also
\* notebooks without a source; CutOut.ipynb present or not.
InitMake ==
    /\ n_holes = 0 /\ length = 0
    /\ img = NoArray
    /\ Locals0
    /\ heap = <<>> /\ frames = <<>> /\ rng = 0 /\ held = {} /\ kernel = Kernel0
    /\ nets = <<>>
    /\ cam = <<>>
    /\ \E md \in SUBSET Names, nb \in SUBSET Names, combined \in BOOLEAN :
          \E stale \in SUBSET (nb \cap md) :
              files = [md |-> md, nb |-> nb, stale |-> stale, combined |-> combined,
                       last |-> <<"none", "ok">>]

\* make all: the prerequisites $(NBS) in order, then CutOut.ipynb.  The
\* pattern rule's recipe runs for every notebook out of date and writes both
\* that notebook and CutOut.ipynb.  CutOut.ipynb has no rule of its own: if
\* it is still missing, make stops with "No rule to make target".
MakeAll ==
    /\ LET built == OutOfDate(files)
           there == files.combined \/ built # {}
       IN  files' = [files EXCEPT
                       !.nb = @ \cup built,
                       !.stale = @ \ built,
                       !.combined = there,
                       !.last = <<"all", IF there THEN "ok" ELSE "No rule to make target">>]
    /\ UNCHANGED <<n_holes, length, callvars, heap, frames, rng, held, kernel, nets, cam>>

\* make clean: rm -f $(NBS) CutOut.ipynb
MakeClean ==
    /\ files' = [files EXCEPT !.nb = @ \ NBS(files),
                              !.stale = @ \ NBS(files),
                              !.combined = FALSE,
                              !.last = <<"clean", "ok">>]
    /\ UNCHANGED <<n_holes, length, callvars, heap, frames, rng, held, kernel, nets, cam>>

\* The author edits notebooks/X.md: an existing X.ipynb is now older.
EditSource ==
    /\ \E X \in files.md \cap files.nb :
          /\ X \notin files.stale
          /\ files' = [files EXCEPT !.stale = @ \cup {X}, !.last = <<"edit", "ok">>]
    /\ UNCHANGED <<n_holes, length, callvars, heap, frames, rng, held, kernel, nets, cam>>

NextMake == MakeAll \/ MakeClean \/ EditSource

SpecMake == InitMake /\ [][NextMake]_vars

----------------------------------------------------------------------------
(* The loop of __call__ replayed on a given sequence of centres: the mask  *)
(* after cutting around each centre of seq in turn, starting from m.       *)

RECURSIVE CutAll(_, _, _)
CutAll(m, seq, len) ==
    IF seq = <<>> THEN m
    ELSE CutAll(SliceAssign(m,
                    NpClip(Head(seq)[1] - Half(len), 0, m.shape[1]),
                    NpClip(Head(seq)[1] + Half(len), 0, m.shape[1]),
                    NpClip(Head(seq)[2] - Half(len), 0, m.shape[2]),
                    NpClip(Head(seq)[2] + Half(len), 0, m.shape[2]),
                    0),
                Tail(seq), len)

----------------------------------------------------------------------------
(* Vocabulary of the properties.                                           *)

ImgC == img.shape[1]
ImgH == img.shape[2]
ImgW == img.shape[3]

\* v clamped to the interval [lo, hi].
Clamp(v, lo, hi) == IF v < lo THEN lo ELSE IF v > hi THEN hi ELSE v

\* Pixel (r, k) lies in the rectangle stated for centre ctr and length len:
\* [clamp(y - len//2, 0, H), clamp(y + len//2, 0, H)) x
\* [clamp(x - len//2, 0, W), clamp(x + len//2, 0, W))
InRect(r, k, ctr, len) ==
    /\ Clamp(ctr[1] - (len \div 2), 0, ImgH) <= r
    /\ r < Clamp(ctr[1] + (len \div 2), 0, ImgH)
    /\ Clamp(ctr[2] - (len \div 2), 0, ImgW) <= k
    /\ k < Clamp(ctr[2] + (len \div 2), 0, ImgW)

\* Pixel (r, k) lies in the rectangle of at least one drawn centre.
Covered(r, k) == \E i \in 1 .. Len(draws) : InRect(r, k, draws[i], length)

\* An array has exactly the given 2-D / 3-D extents, in shape and in data.
HasShape2(t, rows, cols) ==
    /\ t.shape = <<rows, cols>>
    /\ DOMAIN t.data = Axis(rows)
    /\ \A r \in DOMAIN t.data : DOMAIN t.data[r] = Axis(cols)

HasShape3(t, chans, rows, cols) ==
    /\ t.shape = <<chans, rows, cols>>
    /\ DOMAIN t.data = Axis(chans)
    /\ \A c \in DOMAIN t.data : HasShape2([shape |-> <<rows, cols>>, data |-> t.data[c]], rows, cols)

InCall == pc \in {"loop", "drawn", "clipped"}

Reverse(seq) == [i \in 1 .. Len(seq) |-> seq[Len(seq) + 1 - i]]

----------------------------------------------------------------------------
(* C1: for length >= 0 the returned image is 0 at every pixel that lies in *)
(* the clamped rectangle of at least one drawn centre and equals the input *)
(* at every other pixel, in every channel alike.                           *)
C1_ResultIsImageOutsideRectangles ==
    (pc = "done" /\ length >= 0) =>
        /\ HasShape3(ret, ImgC, ImgH, ImgW)
        /\ \A p \in Indices(img.shape) :
              At(ret, p) = IF Covered(p[2], p[3]) THEN 0 ELSE At(img, p)

C1_Witness ==
    /\ pc = "done" /\ length >= 2 /\ Len(draws) = 2
    /\ ImgC > 1 /\ ImgH # ImgW
    /\ \E p \in Indices(img.shape) : Covered(p[2], p[3]) /\ At(img, p) # 0 /\ At(ret, p) = 0
    /\ \E p \in Indices(img.shape) : ~Covered(p[2], p[3]) /\ At(ret, p) # 0

(* C2: every pixel of the returned image is 0 or the input pixel at the    *)
(* same channel, row and column, for every configuration.                  *)
C2_PixelIsZeroOrInput ==
    pc = "done" =>
        /\ HasShape3(ret, ImgC, ImgH, ImgW)
        /\ \A p \in Indices(img.shape) : At(ret, p) \in {0, At(img, p)}

C2_Witness ==
    /\ pc = "done"
    /\ \E p \in Indices(img.shape) : At(img, p) # 0 /\ At(ret, p) = 0
    /\ \E p \in Indices(img.shape) : At(img, p) # 0 /\ At(ret, p) = At(img, p)

(* C3: with n_holes = 0 the returned image equals the input, for every     *)
(* image and every length; the mask is still all ones at the return.       *)
C3_NoHolesIsIdentity ==
    (pc = "done" /\ n_holes = 0) =>
        /\ ret = img
        /\ draws = <<>>
        /\ \A r \in Axis(h), k \in Axis(w) : mask.data[r][k] = 1

C3_Witness ==
    /\ pc = "done" /\ n_holes = 0 /\ length > 0
    /\ ImgH > 1 /\ ImgW > 1
    /\ \E p \in Indices(img.shape) : At(ret, p) # 0

(* C4: at every step of the call the mask has exactly H rows and W         *)
(* columns, and the returned image has exactly the input's shape (C,H,W),  *)
(* square or not.                                                          *)
C4_ShapesKept ==
    /\ (InCall \/ pc \in {"done", "raised"}) =>
          /\ HasShape2(mask, ImgH, ImgW)
          /\ h = ImgH /\ w = ImgW
    /\ pc = "done" => HasShape3(ret, ImgC, ImgH, ImgW)

C4_Witness ==
    /\ pc = "done" /\ n = 2 /\ length >= 2
    /\ ImgH # ImgW /\ ImgH > 1 /\ ImgW > 1
    /\ \E r \in Axis(h), k \in Axis(w) : mask.data[r][k] = 0

(* C5: for length L >= 0 every clamped rectangle has y2 - y1 <= L and      *)
(* x2 - x1 <= L, and the slice cut from the mask spans at most L rows and  *)
(* at most L columns.                                                      *)
C5_RectangleAtMostLength ==
    (pc = "clipped" /\ length >= 0) =>
        /\ y2 - y1 <= length
        /\ x2 - x1 <= length
        /\ Cardinality(SliceIndices(y1, y2, h)) <= length
        /\ Cardinality(SliceIndices(x1, x2, w)) <= length

C5_Witness ==
    /\ pc = "clipped" /\ length >= 2
    /\ y2 - y1 = length
    /\ 0 < x2 - x1 /\ x2 - x1 < length

(* C6: for every length L, even or odd, a centre whose footprint lies      *)
(* inside the image, away from all borders, gets a rectangle of exactly L  *)
(* rows by L columns.                                                      *)
C6_InteriorPatchIsLengthSquare ==
    (/\ pc = "clipped" /\ length >= 0
     /\ 0 <= y - ((length + 1) \div 2) /\ y + ((length + 1) \div 2) <= h
     /\ 0 <= x - ((length + 1) \div 2) /\ x + ((length + 1) \div 2) <= w) =>
        /\ y2 - y1 = length
        /\ x2 - x1 = length
        /\ Cardinality(SliceIndices(y1, y2, h)) = length
        /\ Cardinality(SliceIndices(x1, x2, w)) = length

(* C7: the demonstration, a (3,100,100) image of ones with n_holes = 1,    *)
(* length = 50 and the centre (50,50): the result is 0 exactly at rows     *)
(* 25..74 and columns 25..74 of all 3 channels, and 1 elsewhere.           *)
C7_DemoCutAtCentre ==
    (pc = "done" /\ draws = << <<50, 50>> >>) =>
        /\ HasShape3(ret, 3, 100, 100)
        /\ \A c \in 0 .. 2, r \in 0 .. 99, k \in 0 .. 99 :
              ret.data[c][r][k] = IF r \in 25 .. 74 /\ k \in 25 .. 74 THEN 0 ELSE 1

C7_Witness ==
    /\ pc = "done" /\ draws = << <<50, 50>> >>
    /\ img = DemoImage /\ n_holes = 1 /\ length = 50
    /\ ret.data[2][25][74] = 0 /\ ret.data[0][24][50] = 1

(* C8: with length = 0 every clamped rectangle has y1 = y2 and x1 = x2,    *)
(* and the returned image equals the input for every n_holes and every     *)
(* sequence of centres.                                                    *)
C8_ZeroLengthIsIdentity ==
    length = 0 =>
        /\ pc = "clipped" => (y1 = y2 /\ x1 = x2)
        /\ pc = "done" => ret = img

C8_Witness ==
    /\ pc = "done" /\ length = 0 /\ Len(draws) = 2
    /\ \E p \in Indices(img.shape) : At(ret, p) # 0

(* C9: with two or more cuts, overlapping or not, no error is raised, the  *)
(* zeroed pixels are the union of the rectangles (a pixel covered twice is *)
(* 0 like one covered once), and the result is the one the centres drawn   *)
(* in the opposite order give.                                             *)
C9_OverlapIsUnion ==
    (Len(draws) >= 2 /\ length >= 0) =>
        /\ pc # "raised"
        /\ pc = "done" =>
              /\ \A p \in Indices(img.shape) :
                    At(ret, p) = IF \E ctr \in {draws[i] : i \in 1 .. Len(draws)} :
                                        InRect(p[2], p[3], ctr, length)
                                 THEN 0 ELSE At(img, p)
              /\ ret = Mul(img, ExpandAs(CutAll(NpOnes(h, w), Reverse(draws), length), img))

C9_Witness ==
    /\ pc = "done" /\ Len(draws) = 2 /\ length >= 2
    /\ draws[1] # draws[2]
    /\ \E p \in Indices(img.shape) :
          /\ InRect(p[2], p[3], draws[1], length) /\ InRect(p[2], p[3], draws[2], length)
          /\ At(img, p) # 0 /\ At(ret, p) = 0
    /\ \E p \in Indices(img.shape) :
          /\ InRect(p[2], p[3], draws[1], length) /\ ~InRect(p[2], p[3], draws[2], length)
    /\ \E p \in Indices(img.shape) :
          /\ ~InRect(p[2], p[3], draws[1], length) /\ InRect(p[2], p[3], draws[2], length)
    /\ \E p \in Indices(img.shape) : ~Covered(p[2], p[3]) /\ At(ret, p) # 0

(* C10: in every iteration, for length >= 0, the slice bounds satisfy      *)
(* 0 <= y1, y2 <= H and 0 <= x1, x2 <= W, so the slice selects exactly the *)
(* rows y1..y2-1 and columns x1..x2-1: nothing outside the image and       *)
(* nothing counted from the opposite edge.                                 *)
C10_BoundsInsideImage ==
    (pc = "clipped" /\ length >= 0) =>
        /\ 0 <= y1 /\ y1 <= ImgH
        /\ 0 <= y2 /\ y2 <= ImgH
        /\ 0 <= x1 /\ x1 <= ImgW
        /\ 0 <= x2 /\ x2 <= ImgW
        /\ SliceIndices(y1, y2, h) = { r \in Axis(ImgH) : y1 <= r /\ r < y2 }
        /\ SliceIndices(x1, x2, w) = { k \in Axis(ImgW) : x1 <= k /\ k < x2 }
        /\ SliceIndices(y1, y2, h) \subseteq (y - (length \div 2)) .. (y + (length \div 2))
        /\ SliceIndices(x1, x2, w) \subseteq (x - (length \div 2)) .. (x + (length \div 2))

C10_Witness ==
    /\ pc = "clipped" /\ length >= 2 /\ ImgH # ImgW
    /\ y - (length \div 2) < 0 /\ y1 = 0
    /\ x + (length \div 2) > ImgW /\ x2 = ImgW
    /\ y1 < y2 /\ y2 < ImgH /\ x1 < x2

(* C14: on an image with H >= 1 and W >= 1 every drawn centre satisfies    *)
(* 0 <= y < H and 0 <= x < W; H and W themselves are never drawn.          *)
C14_CentreInsideImage ==
    (ImgH >= 1 /\ ImgW >= 1) =>
        /\ \A i \in 1 .. Len(draws) :
              /\ 0 <= draws[i][1] /\ draws[i][1] < ImgH
              /\ 0 <= draws[i][2] /\ draws[i][2] < ImgW
        /\ pc \in {"drawn", "clipped"} => (y \in 0 .. (ImgH - 1) /\ x \in 0 .. (ImgW - 1))

C14_Witness ==
    /\ pc = "drawn" /\ Len(draws) = 2
    /\ ImgH > 1 /\ ImgW > ImgH
    /\ draws[1] = <<ImgH - 1, 0>>
    /\ draws[2] = <<0, ImgW - 1>>

(* C16: a call with a negative length and at least one hole on a non-empty *)
(* image ends in a runtime error and never returns an image.               *)
C16_NegativeLengthRaises ==
    (length < 0 /\ n_holes >= 1 /\ ImgH >= 1 /\ ImgW >= 1) => pc # "done"

(* C16, as the code behaves: with a negative length every clamp range is   *)
(* degenerate or inverted (y1 >= y2, x1 >= x2), the slice selects nothing, *)
(* no error is raised once a centre was drawn, and the call returns an     *)
(* image equal to its input.                                               *)
C16_NegativeLengthCutsNothing ==
    length < 0 =>
        /\ pc = "clipped" =>
              /\ y1 >= y2 /\ x1 >= x2
              /\ SliceIndices(y1, y2, h) = {} /\ SliceIndices(x1, x2, w) = {}
        /\ Len(draws) >= 1 => pc # "raised"
        /\ pc = "done" => ret = img

C16_Witness ==
    /\ pc = "done" /\ length < 0 /\ Len(draws) = 2
    /\ y1 > y2 /\ x1 > x2
    /\ ret = img
    /\ \E p \in Indices(img.shape) : At(ret, p) # 0

(* C18: at every step of the call every mask entry is 0 or 1, and within a *)
(* call an entry that is 0 stays 0 in every later step.                    *)
C18_MaskBinaryAndMonotone ==
    /\ [](\A r \in DOMAIN mask.data : \A k \in DOMAIN mask.data[r] :
              mask.data[r][k] \in {0, 1})
    /\ [][\A r \in DOMAIN mask.data : \A k \in DOMAIN mask.data[r] :
              mask.data[r][k] = 0 => mask'.data[r][k] = 0]_vars

C18_Witness ==
    /\ pc = "loop" /\ n = 2
    /\ draws[1] # draws[2]
    /\ \E r \in Axis(h), k \in Axis(w) :
          /\ InRect(r, k, draws[1], length) /\ InRect(r, k, draws[2], length)
          /\ mask.data[r][k] = 0
    /\ \E r \in Axis(h), k \in Axis(w) : mask.data[r][k] = 1

(* C20: for length >= 0 the clamped bounds are ordered, y1 <= y2 and       *)
(* x1 <= x2, and the slice is empty exactly when its two bounds are equal. *)
C20_BoundsOrdered ==
    (pc = "clipped" /\ length >= 0) =>
        /\ y1 <= y2 /\ x1 <= x2
        /\ SliceIndices(y1, y2, h) = {} <=> y1 = y2
        /\ SliceIndices(x1, x2, w) = {} <=> x1 = x2

C20_Witness ==
    /\ pc = "clipped" /\ length = 3
    /\ y = 0 /\ y1 = 0 /\ y2 = 1
    /\ x = ImgW - 1 /\ x1 < x2 /\ x2 = ImgW

----------------------------------------------------------------------------
(* Vocabulary of the properties of the caller's side.                      *)

\* The centres a frame drew, pairing each row draw with the column draw
\* after it.
Centres(drawn) ==
    [i \in 1 .. (Len(drawn) \div 2) |-> <<drawn[2 * i - 1].value, drawn[2 * i].value>>]

\* Pixel (r, k) of a rows x cols image lies in the rectangle stated for
\* centre ctr and length len.
RectHas(r, k, ctr, len, rows, cols) ==
    /\ Clamp(ctr[1] - (len \div 2), 0, rows) <= r
    /\ r < Clamp(ctr[1] + (len \div 2), 0, rows)
    /\ Clamp(ctr[2] - (len \div 2), 0, cols) <= k
    /\ k < Clamp(ctr[2] + (len \div 2), 0, cols)

\* Tensor out is tensor inp with exactly the rectangles of ctrs zeroed.
IsCutOf(out, inp, ctrs, len) ==
    /\ HasShape3(out, inp.shape[1], inp.shape[2], inp.shape[3])
    /\ \A p \in Indices(inp.shape) :
          At(out, p) = IF \E i \in 1 .. Len(ctrs) :
                              RectHas(p[2], p[3], ctrs[i], len, inp.shape[2], inp.shape[3])
                       THEN 0 ELSE At(inp, p)

Active(f) == f.pc \in {"loop", "drawnY", "drawn", "clipped"}

(* C11: a call never modifies the tensor passed to it: after any number of *)
(* calls every input tensor holds its original values, the returned tensor *)
(* is another tensor than the argument, and the Cutout object refers to no *)
(* tensor.                                                                 *)
C11_InputNeverModified ==
    /\ \A id \in InputIds : heap[id] = CallerImages[id]
    /\ held = {}
    /\ \A t \in DOMAIN frames :
          frames[t].pc = "done" =>
              /\ frames[t].ret \notin InputIds
              /\ frames[t].ret # frames[t].img

C11_Witness ==
    /\ frames[1].pc = "done" /\ frames[1].calls = 2
    /\ heap[frames[1].ret] # heap[frames[1].img]
    /\ heap[frames[1].img] = CallerImages[frames[1].img]
    /\ \E p \in Indices(heap[frames[1].img].shape) :
          At(heap[frames[1].ret], p) = 0 /\ At(heap[frames[1].img], p) # 0

(* C12: no step of any call changes n_holes or length: through every       *)
(* sequence of calls both keep the values given at construction.           *)
C12_ConfigNeverChanges == [][n_holes' = n_holes /\ length' = length]_vars

C12_Witness ==
    /\ frames[1].pc = "done" /\ frames[1].calls = 2
    /\ n_holes = 2 /\ length = 3
    /\ frames[1].y1 < frames[1].y2

(* C13: every call starts from a fresh all-ones mask, and the image a call *)
(* returns is its own input with exactly the rectangles of its own centres *)
(* zeroed, whatever an earlier call on the same object cut.                *)
C13_NoMaskCarriedOver ==
    \A t \in DOMAIN frames :
        /\ (frames[t].pc = "loop" /\ frames[t].n = 0) =>
              frames[t].mask = Full2(heap[frames[t].img].shape[2],
                                     heap[frames[t].img].shape[3], 1)
        /\ frames[t].pc = "done" =>
              IsCutOf(heap[frames[t].ret], heap[frames[t].img],
                      Centres(frames[t].drawn), length)

C13_Witness ==
    /\ frames[1].calls = 1 /\ frames[1].pc = "loop"
    /\ n_holes >= 1 /\ frames[1].n = n_holes
    /\ heap[ResultId(1)].shape = heap[frames[1].img].shape
    /\ \E p \in Indices(heap[frames[1].img].shape) :
          /\ At(heap[ResultId(1)], p) = 0 /\ At(heap[frames[1].img], p) # 0
          /\ frames[1].mask.data[p[2]][p[3]] = 1
    /\ \E r \in Axis(frames[1].h), k \in Axis(frames[1].w) : frames[1].mask.data[r][k] = 0

(* C15: when two invocations on the same object interleave, a step of one  *)
(* changes only its own frame, its own result and the random source; each  *)
(* result is what a sequential run gives from that invocation's image and  *)
(* the centres it drew itself; the random source counts every draw once.   *)
C15_ConcurrentCallsIndependent ==
    /\ [](/\ \A t \in DOMAIN frames :
                frames[t].pc = "done" =>
                    /\ heap[frames[t].ret] =
                          Mul(heap[frames[t].img],
                              ExpandAs(CutAll(NpOnes(frames[t].h, frames[t].w),
                                              Centres(frames[t].drawn), length),
                                       heap[frames[t].img]))
                    /\ IsCutOf(heap[frames[t].ret], heap[frames[t].img],
                               Centres(frames[t].drawn), length)
          /\ rng = Len(frames[1].drawn) + Len(frames[2].drawn))
    /\ [][\A t \in DOMAIN frames :
              frames'[t] # frames[t] =>
                  /\ \A u \in DOMAIN frames \ {t} :
                        /\ frames'[u] = frames[u]
                        /\ heap'[ResultId(u)] = heap[ResultId(u)]
                  /\ \A id \in InputIds : heap'[id] = heap[id]
                  /\ n_holes' = n_holes /\ length' = length /\ held' = held]_vars

C15_Witness ==
    /\ frames[1].pc = "loop" /\ frames[1].n = 1
    /\ frames[2].pc = "clipped"
    /\ frames[1].img = frames[2].img
    /\ frames[2].y1 < frames[2].y2 /\ frames[2].x1 < frames[2].x2
    /\ \E r \in Axis(frames[1].h), k \in Axis(frames[1].w) :
          /\ frames[1].mask.data[r][k] = 0
          /\ frames[2].mask.data[r][k] = 1
          /\ ~(r \in frames[2].y1 .. (frames[2].y2 - 1) /\ k \in frames[2].x1 .. (frames[2].x2 - 1))

C17_CellsRerunnable ==
    kernel.defined => kernel.last \in {"none", "ok"}

----------------------------------------------------------------------------
(* Properties of particular lengths.                                       *)

\* Every centre drawn so far, as a set.
DrawnCentres == {draws[i] : i \in 1 .. Len(draws)}

(* C21: for length >= 2 and n_holes >= 1 every cut is non-empty and        *)
(* contains its own centre, y1 <= y < y2 and x1 <= x < x2, so the pixel at *)
(* every drawn centre is 0 in every channel of the output, also for a      *)
(* centre on a border row or column.                                       *)
C21_CutContainsCentre ==
    (length >= 2 /\ n_holes >= 1) =>
        /\ pc = "clipped" =>
              /\ y1 <= y /\ y < y2
              /\ x1 <= x /\ x < x2
        /\ (pc = "loop" /\ n >= 1) => mask.data[y][x] = 0
        /\ pc = "done" =>
              \A ctr \in DrawnCentres : \A c \in Axis(ImgC) :
                  ret.data[c][ctr[1]][ctr[2]] = 0

C21_Witness ==
    /\ pc = "done" /\ length = 2 /\ Len(draws) = 2
    /\ draws[1] = <<0, 0>> /\ draws[2] = <<ImgH - 1, ImgW - 1>>
    /\ ImgH = 3 /\ ImgW = 3 /\ ImgC = 3
    /\ \A c \in Axis(ImgC) :
          /\ ret.data[c][0][0] = 0
          /\ img.data[c][ImgH - 1][ImgW - 1] # 0 /\ ret.data[c][ImgH - 1][ImgW - 1] = 0
          /\ ret.data[c][0][1] # 0

C24_SameDrawsSameOutput ==
    \A t \in DOMAIN frames : \A u \in DOMAIN frames :
        (/\ frames[t].pc = "done" /\ frames[u].pc = "done"
         /\ heap[frames[t].img] = heap[frames[u].img]
         /\ Centres(frames[t].drawn) = Centres(frames[u].drawn)) =>
            heap[frames[t].ret] = heap[frames[u].ret]

C24_Witness ==
    /\ frames[1].pc = "done" /\ frames[2].pc = "done"
    /\ frames[1].calls = 2 /\ frames[2].calls = 1
    /\ frames[1].img = frames[2].img
    /\ n_holes = 1 /\ length = 2
    /\ Centres(frames[1].drawn) = Centres(frames[2].drawn)
    /\ frames[1].ret # frames[2].ret
    /\ heap[frames[1].ret] = heap[frames[2].ret]
    /\ heap[frames[1].ret] # heap[frames[1].img]

----------------------------------------------------------------------------
(* Properties of the Grad-CAM networks.                                    *)

(* C25: a model's activations field is None until its first forward pass   *)
(* and after every forward holds the output of the hooked layer (layer4 of *)
(* ResNet, block3 of WideResNet) from the most recent forward; gradients   *)
(* is None until a backward pass ran and only a backward pass sets it; a   *)
(* read after forward and backward finds both fields set; and a pass on    *)
(* one instance never changes the fields of another instance.              *)
C25_HookFieldsFollowPasses ==
    /\ [](\A m \in ModelIds :
            /\ nets[m].passes = 0 => nets[m].activations = NoneValue
            /\ nets[m].passes > 0 =>
                  nets[m].activations =
                      [model |-> m, layer |-> HookedLayer(nets[m].arch),
                       pass |-> nets[m].passes]
            /\ nets[m].backs = 0 <=> nets[m].gradients = NoneValue
            /\ nets[m].gradients # NoneValue =>
                  /\ nets[m].gradients.model = m
                  /\ nets[m].gradients.layer = HookedLayer(nets[m].arch)
            /\ (cam.read[m].passes > 0 /\ cam.read[m].backs > 0) =>
                  cam.read[m].status = "ok")
    /\ [][\A m \in ModelIds :
              /\ nets'[m].gradients # nets[m].gradients =>
                    nets'[m].backs = nets[m].backs + 1
              /\ nets'[m] # nets[m] =>
                    \A k \in ModelIds \ {m} : nets'[k] = nets[k]]_vars

C25_Witness ==
    /\ nets[1].passes = 2 /\ nets[1].backs = 1 /\ nets[1].graph = 2
    /\ nets[1].gradients.pass = 1 /\ nets[1].activations.pass = 2
    /\ cam.read[1].status = "ok" /\ cam.read[1].passes = 2
    /\ nets[2].passes = 1 /\ nets[2].backs = 0
    /\ nets[2].activations.layer = "block3" /\ nets[2].gradients = NoneValue
    /\ cam.read[2].status = "AttributeError"

RECURSIVE Flatten(_)
Flatten(seqs) == IF seqs = <<>> THEN <<>> ELSE Head(seqs) \o Flatten(Tail(seqs))

(* C28: NetworkBlock._make_layer builds exactly nb_layers blocks, block 0   *)
(* with (in_planes, stride) and every later block with (out_planes, 1), so *)
(* that within a network block and across block1, block2, block3 every     *)
(* basic block's input channel count equals the output channel count of    *)
(* the one before it (of conv1 for the first), and a basic block has a     *)
(* convolutional shortcut exactly when its input and output counts differ. *)
C28_WideBlocksChained ==
    nets.pc \in {"block", "layer", "tail", "done"} =>
        LET built == nets.blocks \o (IF nets.pc = "layer" THEN <<nets.layers>> ELSE <<>>)
            all   == Flatten(built)
        IN  /\ \A k \in 1 .. Len(nets.blocks) : Len(nets.blocks[k]) = nets.n
            /\ \A k \in 1 .. Len(built) : \A j \in 1 .. Len(built[k]) :
                  /\ built[k][j].in_planes =
                        IF j = 1 THEN 16 * (IF k = 1 THEN 1 ELSE 2 ^ (k - 2) * nets.widen_factor)
                                 ELSE 16 * 2 ^ (k - 1) * nets.widen_factor
                  /\ built[k][j].out_planes = 16 * 2 ^ (k - 1) * nets.widen_factor
                  /\ built[k][j].stride = IF j = 1 /\ k > 1 THEN 2 ELSE 1
            /\ \A j \in 1 .. Len(all) :
                  /\ all[j].in_planes =
                        IF j = 1 THEN nets.conv1.out_channels ELSE all[j - 1].out_planes
                  /\ (all[j].convShortcut # <<>>) <=> (all[j].in_planes # all[j].out_planes)

C28_Witness ==
    /\ nets.pc = "done" /\ nets.depth = 16 /\ nets.widen_factor = 2
    /\ nets.blocks[1][1].convShortcut # <<>> /\ nets.blocks[1][2].convShortcut = <<>>
    /\ nets.blocks[2][1].in_planes = 32 /\ nets.blocks[2][1].stride = 2
    /\ nets.blocks[3][2].in_planes = 128 /\ nets.blocks[3][2].stride = 1

(* C27: for both block types and every num_blocks with positive entries,   *)
(* _make_layer gives the first block of a layer the layer's stride and     *)
(* every later block stride 1; every block's input channel count equals    *)
(* the output channel count, planes * expansion, of the block before it    *)
(* (64, the output of conv1, for the very first); each layer holds         *)
(* num_blocks[k] blocks; and after the four layers in_planes equals        *)
(* 512 * expansion, the input width of the final linear layer.             *)
C27_ResNetLayersChained ==
    (\A k \in 1 .. 4 : nets.num_blocks[k] > 0) =>
        LET shown == nets.built \o (IF nets.pc = "loop" THEN <<nets.layers>> ELSE <<>>)
            all   == Flatten(shown)
        IN  /\ \A k \in 1 .. Len(nets.built) : Len(nets.built[k]) = nets.num_blocks[k]
            /\ \A k \in 1 .. Len(shown) : \A j \in 1 .. Len(shown[k]) :
                  /\ shown[k][j].stride = IF j = 1 THEN (IF k = 1 THEN 1 ELSE 2) ELSE 1
                  /\ shown[k][j].planes = 64 * 2 ^ (k - 1)
            /\ \A j \in 1 .. Len(all) :
                  /\ all[j].out_planes = all[j].planes * nets.expansion
                  /\ all[j].in_planes = IF j = 1 THEN 64 ELSE all[j - 1].out_planes
            /\ (all # <<>>) => nets.in_planes = all[Len(all)].out_planes
            /\ nets.pc \in {"linear", "done"} => nets.in_planes = 512 * nets.expansion
            /\ nets.pc = "done" => nets.linear = nets.in_planes

C27_Witness ==
    /\ nets.pc = "done" /\ nets.expansion = 4
    /\ nets.num_blocks = <<2, 1, 2, 2>>
    /\ nets.built[1][2].in_planes = 256 /\ nets.built[1][2].stride = 1
    /\ nets.built[2][1].in_planes = 256 /\ nets.built[2][1].stride = 2
    /\ nets.built[4][2].in_planes = 2048 /\ nets.linear = 2048

(* C29: in a Grad-CAM comparison cell the prediction label shown on each   *)
(* of the four heatmap panels is the predicted class of the model that     *)
(* produced that panel's heatmap, also when the baseline and the cutout    *)
(* model predict different classes.                                        *)
C29_PanelShowsOwnPrediction ==
    cam.pc = "shown" =>
        \A k \in Panels :
            cam.titles[k] = <<"Pred: ", cifar10_classes[cam.target[cam.heatmap[k]] + 1]>>

(* C30: from any state of the generated files (none present, all present,  *)
(* or CutOut.ipynb alone missing while every notebooks/X.ipynb is up to    *)
(* date) `make all` ends with one notebooks/X.ipynb for every              *)
(* notebooks/X.md and with CutOut.ipynb present; `make clean` removes      *)
(* exactly those generated files.                                          *)
C30_MakeAllBuildsEverything ==
    /\ files.last[1] = "all" =>
          /\ files.last[2] = "ok"
          /\ SOURCES(files) \subseteq files.nb
          /\ files.combined
    /\ files.last[1] = "clean" =>
          /\ files.nb \cap SOURCES(files) = {}
          /\ ~files.combined

====
